---------------------------- MODULE Spec2Model ----------------------------
(***************************************************************************)
(* The i-PI socket client of src/driver.py (BaseDriver and its two         *)
(* evaluators) together with the two loops that drive it: the __main__     *)
(* loop of src/driver.py and the supervising loop of                       *)
(* src/example/h2/gdriver.py.                                              *)
(*                                                                         *)
(* Bytes are integers 0..255; a str is a sequence of bytes (the str/bytes  *)
(* semantics under which the header comparisons of parse() can succeed).   *)
(* A float64 is the sequence of its 8 bytes; floating-point arithmetic is  *)
(* kept symbolic: the result of an operation is the term <<op>> \o args    *)
(* with a negative opcode, so results stay a function of their inputs.     *)
(* An array is a record [shape, data]; None is the array of shape <<-1>>.  *)
(*                                                                         *)
(* The orchestrator is the environment: it appends whole messages to the   *)
(* byte stream of the connection, may shut its sending side down, and may  *)
(* stay silent.  socket.recv(n) returns between 1 and n of the bytes that  *)
(* are there (a short read), "" at end of stream, and blocks otherwise.    *)
(* socket.send is taken to succeed.                                        *)
(***************************************************************************)
EXTENDS Integers, Sequences, FiniteSets, TLC

\* ---------------------------------------------------------------- bounds
\* free messages the orchestrator sends in one run
MaxMsgs == 3
\* largest atom count of a POSDATA message
MaxAtoms == 2
\* largest declared length of an INIT payload
MaxInitLen == 1
\* reads that return fewer bytes than are available, per run
MaxShort == 1
\* clients the supervising loop constructs
MaxClients == 2
MaxCycles == 2

\* ------------------------------------------------------ program constants
INT == 4
FLOAT == 8
HeaderLen == 12
HeaderTimeout == 10
GaussAtoms == 2

SP == 32
WS == {9, 10, 11, 12, 13, 32}

\* the five commands parse() compares the stripped header with
CmdSTATUS == <<83, 84, 65, 84, 85, 83>>
CmdINIT == <<73, 78, 73, 84>>
CmdPOSDATA == <<80, 79, 83, 68, 65, 84, 65>>
CmdGETFORCE == <<71, 69, 84, 70, 79, 82, 67, 69>>
CmdEXIT == <<69, 88, 73, 84>>

\* the reply headers, 12 bytes each
NEEDINIT == <<78, 69, 69, 68, 73, 78, 73, 84, 32, 32, 32, 32>>
READY == <<82, 69, 65, 68, 89, 32, 32, 32, 32, 32, 32, 32>>
HAVEDATA == <<72, 65, 86, 69, 68, 65, 84, 65, 32, 32, 32, 32>>
FORCEREADY == <<70, 79, 82, 67, 69, 82, 69, 65, 68, 89, 32, 32>>

\* ------------------------------------------------------------ sequences
Min2(a, b) == IF a < b THEN a ELSE b

Take(s, k) == SubSeq(s, 1, k)

Drop(s, k) == SubSeq(s, k + 1, Len(s))

\* str.strip(): leading and trailing whitespace removed
strip(s) ==
    LET keep == {i \in 1..Len(s) : s[i] \notin WS}
    IN  IF keep = {} THEN <<>>
        ELSE SubSeq(s, CHOOSE i \in keep : \A j \in keep : i <= j,
                       CHOOSE i \in keep : \A j \in keep : i >= j)

\* ------------------------------------------------------------ the codec
\* struct.pack("i", n): 4 bytes, little-endian two's complement
pack_i(n) ==
    LET u == IF n < 0 THEN n + 2147483647 + 1 ELSE n
        top == (u \div 16777216) + (IF n < 0 THEN 128 ELSE 0)
    IN  <<u % 256, (u \div 256) % 256, (u \div 65536) % 256, top>>

\* np.frombuffer(b, dtype=np.int32)[0] of exactly 4 bytes
int32(b) ==
    b[1] + 256 * b[2] + 65536 * b[3]
      + 16777216 * (IF b[4] >= 128 THEN b[4] - 256 ELSE b[4])

\* np.frombuffer(b, dtype=np.float64): one float per 8 bytes
float64s(b) == [i \in 1..(Len(b) \div FLOAT) |-> SubSeq(b, FLOAT * (i - 1) + 1, FLOAT * i)]

\* symbolic floating-point operations
OpMulBohr == -1
OpDivBohr == -2
OpNeg == -3
OpHarmonicEnergy == -4
OpHarmonicGrad == -5
OpMul == -6
OpDivEh == -7
OpDivEhBohr == -8
OpGaussEnergy == -9
OpGaussGrad == -10

Term1(op, x) == <<op>> \o x

Term2(op, x, y) == <<op>> \o x \o y

RECURSIVE Flat(_)
Flat(ss) == IF ss = <<>> THEN <<>> ELSE Head(ss) \o Flat(Tail(ss))

None == [shape |-> <<-1>>, data |-> <<>>]

IsNone(a) == a.shape = <<-1>>

Arr(shape, data) == [shape |-> shape, data |-> data]

Map1(op, a) == Arr(a.shape, [i \in 1..Len(a.data) |-> Term1(op, a.data[i])])

\* ------------------------------------------------- the orchestrator's bytes
F64Zero == <<0, 0, 0, 0, 0, 0, 0, 0>>
F64One == <<0, 0, 0, 0, 0, 0, 240, 63>>
F64Two == <<0, 0, 0, 0, 0, 0, 0, 64>>

CoordVal(v) == IF v = 1 THEN F64One ELSE F64Two

Pad(s) == s \o [i \in 1..(HeaderLen - Len(s)) |-> SP]

\* a 3x3 matrix on the wire: the unit matrix
CellBytes == Flat([i \in 1..9 |-> IF i \in {1, 5, 9} THEN F64One ELSE F64Zero])

Programs == {"main", "gdriver", "base"}

Msg(kind, n, v) == [kind |-> kind, n |-> n, v |-> v]

Msgs ==
    {Msg(k, 0, 0) : k \in {"STATUS", "GETFORCE", "EXIT", "FOO", "X", "BLANK"}}
      \cup {Msg("INIT", n, 0) : n \in 0..MaxInitLen}
      \cup {Msg("POSDATA", n, v) : n \in 1..MaxAtoms, v \in {1, 2}}

\* the bytes of one message as the orchestrator writes it
MsgBytes(m) ==
    CASE m.kind = "STATUS" -> Pad(CmdSTATUS)
      [] m.kind = "GETFORCE" -> Pad(CmdGETFORCE)
      [] m.kind = "EXIT" -> Pad(CmdEXIT)
      [] m.kind = "FOO" -> Pad(<<70, 79, 79>>)
      [] m.kind = "X" -> Pad(<<88>>)
      [] m.kind = "BLANK" -> Pad(<<>>)
      [] m.kind = "INIT" ->
            Pad(CmdINIT) \o pack_i(0) \o pack_i(m.n) \o [i \in 1..m.n |-> 97]
      [] m.kind = "POSDATA" ->
            Pad(CmdPOSDATA) \o CellBytes \o CellBytes \o pack_i(m.n)
              \o Flat([i \in 1..(3 * m.n) |-> CoordVal(m.v)])

\* the sequence test of the specification, one per choice of payloads
SeqTest(l, n, v) ==
    <<Msg("INIT", l, 0), Msg("STATUS", 0, 0), Msg("POSDATA", n, v),
      Msg("STATUS", 0, 0), Msg("GETFORCE", 0, 0), Msg("STATUS", 0, 0)>>

Scripts == {<<>>} \cup {SeqTest(l, n, v) : l \in 0..MaxInitLen, n \in 1..MaxAtoms, v \in {1, 2}}

\* ------------------------------------------------------------------ state
VARIABLES
    program,     \* which loop and evaluator run: __main__ (HarmonicDriver),
                 \* gdriver.py (GaussDriver), or a plain BaseDriver
    seqTest,     \* the orchestrator starts with the sequence test
    clients,     \* clients constructed so far
    pc,          \* where the process is: connect, header, a payload read, halted
    sock,        \* "none", "open", "closed" (socket.close() was called)
    timeout,     \* the socket's timeout in seconds, 0 for None
    ifInit, ifForce,
    cell, inverse, crd, energy, force, extra, nbead, natom,
    offset,      \* init()'s local
    stream,      \* bytes the orchestrator wrote that no recv has returned yet
    peerClosed,  \* the orchestrator has shut its sending side down
    script,      \* messages of the sequence test still to be written
    nfree,       \* free messages written so far
    shortReads,  \* reads that returned fewer bytes than were available
    header,      \* the stripped header of the latest parse()
    out,         \* what the latest parse() sent, one record per socket.send
    replies,     \* the 12-byte headers this client has sent, in order
    lastPG,      \* "POSDATA"/"GETFORCE": which of the two handlers completed last
    lastRead,    \* [want, got] of the latest recv
    signal,      \* the exception that left parse() or the constructor
    where,       \* the pc at which it was raised
    hs,          \* the orchestrator that follows the handshake: its phase, the
                 \* replies it had seen when it wrote, the POSDATA it has sent
    posLog       \* one entry per posdata() that returned: the client, the
                 \* coordinates and whether a result was already pending

conf == <<program, seqTest>>

flags == <<ifInit, ifForce>>

data == <<cell, inverse, crd, energy, force, extra, nbead, natom, offset>>

orch == <<script, nfree, peerClosed>>

obs == <<header, out, replies, lastPG>>

vars == <<program, seqTest, clients, pc, sock, timeout, ifInit, ifForce, cell,
          inverse, crd, energy, force, extra, nbead, natom, offset, stream,
          peerClosed, script, nfree, shortReads, header, out, replies, lastPG,
          lastRead, signal, where, hs, posLog>>

PayloadPcs == {"init_nbead", "init_offset", "init_payload",
               "pos_cell", "pos_inverse", "pos_natom", "pos_crd"}

Init ==
    /\ program \in Programs
    /\ script \in Scripts
    /\ seqTest = (script # <<>>)
    /\ clients = 0
    /\ pc = "connect"
    /\ sock = "none"
    /\ timeout = 0
    /\ ifInit = FALSE
    /\ ifForce = FALSE
    /\ cell = None
    /\ inverse = None
    /\ crd = None
    /\ energy = None
    /\ force = None
    /\ extra = <<>>
    /\ nbead = -1
    /\ natom = -1
    /\ offset = 0
    /\ stream = <<>>
    /\ peerClosed = FALSE
    /\ nfree = 0
    /\ shortReads = 0
    /\ header = <<>>
    /\ out = <<>>
    /\ replies = <<>>
    /\ lastPG = "none"
    /\ lastRead = [want |-> 0, got |-> 0]
    /\ signal = "None"
    /\ where = "none"
    /\ posLog = <<>>
    /\ hs = [phase |-> "off", seen |-> 0, cycles |-> 0]

\* an exception leaves parse() or the constructor: the __main__ loop catches
\* nothing; gdriver.py constructs a new client on ExitSignal and exits on
\* TimeOutSignal; anything else ends the process
Raise(sig) ==
    /\ signal' = sig
    /\ where' = pc
    /\ pc' = IF program = "gdriver" /\ sig = "ExitSignal" /\ pc = "header"
             THEN "connect" ELSE "halted"

\* a constructor that keeps the flags and the stored arrays of the client
\* before it
Construct_keepsResult ==
    /\ pc = "connect"
    /\ clients < MaxClients
    /\ clients' = clients + 1
    /\ sock' = "open"
    /\ timeout' = 0
    /\ stream' = <<>>
    /\ peerClosed' = FALSE
    /\ header' = <<>>
    /\ out' = <<>>
    /\ replies' = <<>>
    /\ lastPG' = "none"
    /\ lastRead' = [want |-> 0, got |-> 0]
    /\ signal' = "None"
    /\ where' = "none"
    /\ pc' = "header"
    /\ UNCHANGED <<conf, hs, posLog, flags, data, script, nfree, shortReads>>

\* BaseDriver.__init__: connect within 10 s, then no timeout; fresh fields
Construct ==
    /\ pc = "connect"
    /\ clients < MaxClients
    /\ clients' = clients + 1
    /\ sock' = "open"
    /\ timeout' = 0
    /\ ifInit' = FALSE
    /\ ifForce' = FALSE
    /\ cell' = None
    /\ inverse' = None
    /\ crd' = None
    /\ energy' = None
    /\ force' = None
    /\ extra' = <<>>
    /\ nbead' = -1
    /\ natom' = -1
    /\ offset' = 0
    /\ stream' = <<>>
    /\ peerClosed' = FALSE
    /\ header' = <<>>
    /\ out' = <<>>
    /\ replies' = <<>>
    /\ lastPG' = "none"
    /\ lastRead' = [want |-> 0, got |-> 0]
    /\ signal' = "None"
    /\ where' = "none"
    /\ pc' = "header"
    /\ UNCHANGED <<conf, hs, posLog, script, nfree, shortReads>>

\* BaseDriver.__init__: socket.timeout from connect() becomes TimeOutSignal,
\* which no loop catches at a construction; the fields of the new client are
\* never assigned and nothing was received or sent on its socket
ConstructTimeout ==
    /\ pc = "connect"
    /\ clients < MaxClients
    /\ clients' = clients + 1
    /\ sock' = "open"
    /\ timeout' = HeaderTimeout
    /\ stream' = <<>>
    /\ header' = <<>>
    /\ out' = <<>>
    /\ replies' = <<>>
    /\ lastPG' = "none"
    /\ lastRead' = [want |-> 0, got |-> 0]
    /\ signal' = "TimeOutSignal"
    /\ where' = "connect"
    /\ pc' = "halted"
    /\ UNCHANGED <<conf, hs, posLog, flags, data, orch, shortReads>>

\* ------------------------------------------------------- the orchestrator
MaxBacklog == 0

CanWrite ==
    /\ pc \in {"header"} \cup PayloadPcs
    /\ ~peerClosed
    /\ Len(stream) <= MaxBacklog

OrchScript ==
    /\ CanWrite
    /\ script # <<>>
    /\ stream' = stream \o MsgBytes(Head(script))
    /\ script' = Tail(script)
    /\ UNCHANGED <<conf, hs, posLog, clients, pc, sock, timeout, flags, data, nfree, peerClosed,
                   shortReads, obs, lastRead, signal, where>>

OrchSend ==
    /\ CanWrite
    /\ ~seqTest
    /\ nfree < MaxMsgs
    /\ \E m \in Msgs : stream' = stream \o MsgBytes(m)
    /\ nfree' = nfree + 1
    /\ UNCHANGED <<conf, hs, posLog, clients, pc, sock, timeout, flags, data, script, peerClosed,
                   shortReads, obs, lastRead, signal, where>>

\* where the fields of a message end on the wire
FieldEnds(m) ==
    CASE m.kind = "INIT" -> {HeaderLen, HeaderLen + INT, HeaderLen + 2 * INT}
      [] m.kind = "POSDATA" -> {HeaderLen, HeaderLen + 9 * FLOAT, HeaderLen + 18 * FLOAT,
                                HeaderLen + 18 * FLOAT + INT}
      [] OTHER -> {}

\* the lengths at which a message is cut off when its writer dies: at the end
\* of a field, one byte into a field, or one float into a field
Cuts(m) ==
    {j \in 1..(Len(MsgBytes(m)) - 1) : \E b \in FieldEnds(m) \cup {0} : j \in {b, b + 1, b + FLOAT}}

\* the orchestrator dies while it writes a message: the client receives the
\* first bytes of the message and then the end of the stream (explored in
\* runs without a fragmented read)
OrchAbort ==
    /\ CanWrite
    /\ shortReads = 0
    /\ ~seqTest
    /\ nfree < MaxMsgs
    /\ \E m \in Msgs : \E j \in Cuts(m) : stream' = stream \o Take(MsgBytes(m), j)
    /\ nfree' = nfree + 1
    /\ peerClosed' = TRUE
    /\ UNCHANGED <<conf, hs, posLog, clients, pc, sock, timeout, flags, data, script, shortReads,
                   obs, lastRead, signal, where>>

\* the orchestrator shuts its sending side down; the client sees the end of
\* the stream only once it has read what was written, so the shutdown is
\* taken at that point
OrchClose ==
    /\ pc \in {"header"} \cup PayloadPcs
    /\ ~peerClosed
    /\ stream = <<>>
    /\ peerClosed' = TRUE
    /\ UNCHANGED <<conf, hs, posLog, clients, pc, sock, timeout, flags, data, stream, script, nfree,
                   shortReads, obs, lastRead, signal, where>>

\* an orchestrator that follows the handshake: it polls with STATUS and waits
\* for the answer; it sends INIT after NEEDINIT, POSDATA after READY (EXIT once
\* it has sent MaxCycles of them) and GETFORCE after HAVEDATA, whose reply it
\* waits for before it polls again
OrchHandshake ==
    /\ CanWrite
    /\ hs.phase \in {"poll", "status", "force"}
    /\ hs.phase # "poll" => Len(replies) > hs.seen
    /\ LET last == IF hs.phase = "status" THEN replies[Len(replies)] ELSE <<>>
           to(phase, cycles) == [phase |-> phase, seen |-> Len(replies), cycles |-> cycles]
       IN  IF hs.phase \in {"poll", "force"}
           THEN /\ stream' = stream \o MsgBytes(Msg("STATUS", 0, 0))
                /\ hs' = to("status", hs.cycles)
           ELSE IF last = NEEDINIT
           THEN /\ \E l \in 0..MaxInitLen : stream' = stream \o MsgBytes(Msg("INIT", l, 0))
                /\ hs' = to("poll", hs.cycles)
           ELSE IF last = HAVEDATA
           THEN /\ stream' = stream \o MsgBytes(Msg("GETFORCE", 0, 0))
                /\ hs' = to("force", hs.cycles)
           ELSE IF hs.cycles < MaxCycles
           THEN /\ \E n \in 1..MaxAtoms, v \in {1, 2} :
                     stream' = stream \o MsgBytes(Msg("POSDATA", n, v))
                /\ hs' = to("poll", hs.cycles + 1)
           ELSE /\ stream' = stream \o MsgBytes(Msg("EXIT", 0, 0))
                /\ hs' = to("done", hs.cycles)
    /\ UNCHANGED <<conf, posLog, clients, pc, sock, timeout, flags, data, script, nfree,
                   peerClosed, shortReads, obs, lastRead, signal, where>>

\* ------------------------------------------------------------- socket.recv
\* the byte counts one socket.recv(n) may return; none when it blocks (what a
\* peer that is gone left behind is explored as read whole)
RecvSizes(n) ==
    IF n = 0 THEN {0}
    ELSE IF stream = <<>> THEN (IF peerClosed THEN {0} ELSE {})
    ELSE {Min2(n, Len(stream))}
           \cup (IF shortReads < MaxShort /\ ~peerClosed THEN 1..(Min2(n, Len(stream)) - 1) ELSE {})

\* socket.recv(n) returned the first k bytes of the stream
Recv(n, k) ==
    /\ stream' = Drop(stream, k)
    /\ shortReads' = IF k < Min2(n, Len(stream)) THEN shortReads + 1 ELSE shortReads
    /\ lastRead' = [want |-> n, got |-> k]

\* a byte count too large for the stream behaves as any count above what is there
Clamp(n) == IF n > Len(stream) THEN Len(stream) + 1 ELSE n

\* one socket.send
Sent(fld, bytes, n) == [fld |-> fld, data |-> bytes, len |-> n]

\* ------------------------------------------------------------ the handlers
\* status with the pending-result test dropped from its first branch
status_readyWhenInit ==
    LET reply == IF ifInit THEN READY
                 ELSE IF ifForce THEN HAVEDATA
                 ELSE NEEDINIT
    IN  /\ out' = <<Sent("header", reply, Len(reply))>>
        /\ replies' = Append(replies, reply)
        /\ UNCHANGED <<pc, sock, flags, data, lastPG, signal, where>>

\* BaseDriver.status
status ==
    LET reply == IF ifInit /\ ~ifForce THEN READY
                 ELSE IF ifForce THEN HAVEDATA
                 ELSE NEEDINIT
    IN  /\ out' = <<Sent("header", reply, Len(reply))>>
        /\ replies' = Append(replies, reply)
        /\ UNCHANGED <<pc, sock, flags, data, lastPG, signal, where>>

\* init acknowledging the command with a READY header
init_acknowledges ==
    /\ pc' = "init_nbead"
    /\ out' = <<Sent("header", READY, Len(READY))>>
    /\ replies' = Append(replies, READY)
    /\ UNCHANGED <<sock, flags, data, lastPG, signal, where>>

\* BaseDriver.init up to its first recv
init ==
    /\ pc' = "init_nbead"
    /\ out' = <<>>
    /\ UNCHANGED <<sock, flags, data, replies, lastPG, signal, where>>

\* BaseDriver.posdata up to its first recv
posdata ==
    /\ pc' = "pos_cell"
    /\ out' = <<>>
    /\ UNCHANGED <<sock, flags, data, replies, lastPG, signal, where>>

\* numpy broadcasting of two (rows, 3) shapes
Broadcasts(sa, sb) ==
    /\ Len(sa) = 2
    /\ Len(sb) = 2
    /\ sa[2] = sb[2]
    /\ (sa[1] = sb[1] \/ sa[1] = 1 \/ sb[1] = 1)

\* (a * b).ravel() for broadcastable a, b
MulRavel(a, b) ==
    LET rows == IF a.shape[1] > b.shape[1] THEN a.shape[1] ELSE b.shape[1]
        cols == a.shape[2]
        at(x, i) == LET r == IF x.shape[1] = 1 THEN 1 ELSE ((i - 1) \div cols) + 1
                        c == ((i - 1) % cols) + 1
                    IN  x.data[(r - 1) * cols + c]
    IN  [i \in 1..(rows * cols) |-> Term2(OpMul, at(a, i), at(b, i))]

\* what BaseDriver.getforce sends before it returns or raises
ForceHead ==
    <<Sent("header", FORCEREADY, Len(FORCEREADY))>>

ForceBody ==
    <<Sent("energy", Term1(OpDivEh, energy.data[1]), FLOAT),
      Sent("natom", pack_i(natom), INT)>>
      \o [i \in 1..Len(force.data) |->
            Sent("force", Term1(OpDivEhBohr, force.data[i]), FLOAT)]

ForceVirial ==
    LET virial == MulRavel(force, crd)
    IN  [i \in 1..Len(virial) |-> Sent("virial", Term1(OpDivEh, virial[i]), FLOAT)]

ForceExtra ==
    LET ex == IF Len(extra) > 0 THEN extra ELSE <<SP>>
    IN  <<Sent("lextra", pack_i(Len(ex)), INT), Sent("extra", ex, Len(ex))>>

\* BaseDriver.getforce, with the value its last line leaves in ifForce
getforceLeaving(pending) ==
    /\ replies' = Append(replies, FORCEREADY)
    /\ UNCHANGED <<sock, ifInit, data>>
    /\ IF IsNone(energy)
       THEN /\ out' = ForceHead
            /\ Raise("TypeError")
            /\ UNCHANGED <<ifForce, lastPG>>
       ELSE IF IsNone(force)
       THEN /\ out' = ForceHead \o Take(ForceBody, 2)
            /\ Raise("AttributeError")
            /\ UNCHANGED <<ifForce, lastPG>>
       ELSE IF ~Broadcasts(force.shape, crd.shape)
       THEN /\ out' = ForceHead \o ForceBody
            /\ Raise("ValueError")
            /\ UNCHANGED <<ifForce, lastPG>>
       ELSE /\ out' = ForceHead \o ForceBody \o ForceVirial \o ForceExtra
            /\ ifForce' = pending
            /\ lastPG' = "GETFORCE"
            /\ UNCHANGED <<pc, signal, where>>

\* getforce without its last line
getforce_keepsResult == getforceLeaving(ifForce)

\* BaseDriver.getforce
getforce == getforceLeaving(FALSE)

\* exit that raises before it closes the socket
exit_raisesFirst ==
    /\ out' = <<>>
    /\ Raise("ExitSignal")
    /\ UNCHANGED <<sock, flags, data, replies, lastPG>>

\* BaseDriver.exit
exit ==
    /\ sock' = "closed"
    /\ out' = <<>>
    /\ Raise("ExitSignal")
    /\ UNCHANGED <<flags, data, replies, lastPG>>

\* parse() treating an empty read as the end of the session
shortHeader_exits ==
    /\ out' = <<>>
    /\ Raise("ExitSignal")
    /\ UNCHANGED <<sock, flags, data, replies, lastPG>>

\* parse(): a header shorter than 2 characters
shortHeader ==
    /\ out' = <<>>
    /\ Raise("TimeOutSignal")
    /\ UNCHANGED <<sock, flags, data, replies, lastPG>>

\* parse() ending the client on a header it does not know
noHandler_raises ==
    /\ out' = <<>>
    /\ Raise("TimeOutSignal")
    /\ UNCHANGED <<sock, flags, data, replies, lastPG>>

\* parse(): no branch of the if/elif chain matches
noHandler ==
    /\ out' = <<>>
    /\ UNCHANGED <<pc, sock, flags, data, replies, lastPG, signal, where>>

\* which branch of parse() a stripped header takes
Branch(hdr) ==
    IF Len(hdr) < 2 THEN "short"
    ELSE IF hdr = CmdSTATUS THEN "STATUS"
    ELSE IF hdr = CmdINIT THEN "INIT"
    ELSE IF hdr = CmdPOSDATA THEN "POSDATA"
    ELSE IF hdr = CmdGETFORCE THEN "GETFORCE"
    ELSE IF hdr = CmdEXIT THEN "EXIT"
    ELSE "none"

\* BaseDriver.parse: the header is read under a 10 s timeout, the timeout is
\* set to `after`, and the branch the header selects runs
parseThen(after, branch, handler) ==
    /\ pc = "header"
    /\ \E k \in RecvSizes(HeaderLen) :
         LET hdr == strip(Take(stream, k))
         IN  /\ Branch(hdr) = branch
             /\ Recv(HeaderLen, k)
             /\ header' = hdr
    /\ timeout' = after
    /\ handler
    /\ UNCHANGED <<conf, hs, posLog, clients, orch>>

\* parse without settimeout(None) after the header
parse_keepsTimeout(branch, handler) == parseThen(HeaderTimeout, branch, handler)

\* BaseDriver.parse
parse(branch, handler) == parseThen(0, branch, handler)

ParseStatus == parse("STATUS", status)

ParseInit == parse("INIT", init)

ParsePosdata == parse("POSDATA", posdata)

ParseGetforce == parse("GETFORCE", getforce)

ParseExit == parse("EXIT", exit)

ParseShort == parse("short", shortHeader)

ParseNone == parse("none", noHandler)

\* a blocking recv runs into the socket's timeout: in parse() the header read
\* has 10 s and socket.timeout becomes TimeOutSignal; a payload read has the
\* timeout the socket was left with
ReadTimeout ==
    /\ pc \in {"header"} \cup PayloadPcs
    /\ stream = <<>>
    /\ ~peerClosed
    /\ IF pc = "header"
       THEN /\ timeout' = HeaderTimeout
            /\ Raise("TimeOutSignal")
       ELSE /\ timeout # 0
            /\ UNCHANGED timeout
            /\ Raise("socket.timeout")
    /\ UNCHANGED <<conf, hs, posLog, clients, sock, flags, data, stream, orch, shortReads, obs,
                   lastRead>>

\* ---------------------------------------------------------- the evaluators
Returned(e, f) == [exc |-> "None", energy |-> e, force |-> f]

Raised(exc) == [exc |-> exc, energy |-> None, force |-> None]

\* BaseDriver.grad
BaseGrad(c) == {Returned(None, None)}

\* HarmonicDriver.grad
HarmonicGrad(c) ==
    LET row(i) == Flat(SubSeq(c.data, 3 * ((i - 1) \div 3) + 1, 3 * ((i - 1) \div 3) + 3))
    IN  {Returned(Arr(<<>>, <<Term1(OpHarmonicEnergy, Flat(c.data))>>),
                  Arr(c.shape, [i \in 1..Len(c.data) |->
                                   Term2(OpHarmonicGrad, c.data[i], row(i))]))}

\* GaussDriver.readlog: the rows it finds after the "Forces" line of the log,
\* none when the log has no such line (np.array([]) has shape (0,))
GaussForces(rows, seen) ==
    IF rows = 0 THEN Arr(<<0>>, <<>>)
    ELSE Arr(<<rows, 3>>, [i \in 1..(3 * rows) |-> <<OpGaussGrad, i>> \o seen])

\* GaussDriver.grad: gengjf indexes one row per atom of self.atoms; the energy
\* and the forces are what the external program logged: readlog raises when
\* the log holds no energy, and returns as many force rows as the log holds,
\* len(self.atoms) at most
GaussGrad(c) ==
    IF c.shape[1] < GaussAtoms THEN {Raised("IndexError")}
    ELSE LET seen == Flat(Take(c.data, 3 * GaussAtoms))
         IN  {Raised("IndexError")}
               \cup {Returned(Arr(<<>>, <<Term1(OpGaussEnergy, seen)>>), GaussForces(rows, seen)) :
                        rows \in 0..GaussAtoms}

\* self.grad(crd) of the driver class the program constructs
grad(c) ==
    CASE program = "main" -> HarmonicGrad(c)
      [] program = "gdriver" -> GaussGrad(c)
      [] program = "base" -> BaseGrad(c)

\* ------------------------------------------------------ the payload reads
\* np.frombuffer(self.socket.recv(INT), dtype=np.int32)[0] raised
IntReadError(k) == IF k = 0 THEN "IndexError" ELSE "ValueError"

\* BaseDriver.init: nbead
InitNbead ==
    /\ pc = "init_nbead"
    /\ \E k \in RecvSizes(INT) :
         /\ Recv(INT, k)
         /\ IF k = INT
            THEN /\ nbead' = int32(Take(stream, INT))
                 /\ pc' = "init_offset"
                 /\ UNCHANGED <<signal, where>>
            ELSE /\ Raise(IntReadError(k))
                 /\ UNCHANGED nbead
    /\ UNCHANGED <<conf, hs, posLog, clients, sock, timeout, flags, cell, inverse, crd, energy,
                   force, extra, natom, offset, orch, obs>>

\* BaseDriver.init: offset
InitOffset ==
    /\ pc = "init_offset"
    /\ \E k \in RecvSizes(INT) :
         /\ Recv(INT, k)
         /\ IF k = INT
            THEN /\ offset' = int32(Take(stream, INT))
                 /\ pc' = "init_payload"
                 /\ UNCHANGED <<signal, where>>
            ELSE /\ Raise(IntReadError(k))
                 /\ UNCHANGED offset
    /\ UNCHANGED <<conf, hs, posLog, clients, sock, timeout, flags, cell, inverse, crd, energy,
                   force, extra, nbead, natom, orch, obs>>

\* init that also drops a pending result
InitPayload_clearsPending ==
    /\ pc = "init_payload"
    /\ IF offset < 0
       THEN /\ Raise("ValueError")
            /\ UNCHANGED <<ifInit, ifForce, stream, shortReads, lastRead>>
       ELSE /\ \E k \in RecvSizes(Clamp(offset)) : Recv(Clamp(offset), k)
            /\ ifInit' = TRUE
            /\ ifForce' = FALSE
            /\ pc' = "header"
            /\ UNCHANGED <<signal, where>>
    /\ UNCHANGED <<conf, hs, posLog, clients, sock, timeout, data, orch, obs>>

\* BaseDriver.init: the payload goes to update(), which does nothing
InitPayload ==
    /\ pc = "init_payload"
    /\ IF offset < 0
       THEN /\ Raise("ValueError")
            /\ UNCHANGED <<ifInit, stream, shortReads, lastRead>>
       ELSE /\ \E k \in RecvSizes(Clamp(offset)) : Recv(Clamp(offset), k)
            /\ ifInit' = TRUE
            /\ pc' = "header"
            /\ UNCHANGED <<signal, where>>
    /\ UNCHANGED <<conf, hs, posLog, clients, sock, timeout, ifForce, data, orch, obs>>

\* BaseDriver.posdata: cell
PosCell ==
    /\ pc = "pos_cell"
    /\ \E k \in RecvSizes(FLOAT * 9) :
         /\ Recv(FLOAT * 9, k)
         /\ IF k % FLOAT = 0
            THEN /\ cell' = Map1(OpMulBohr, Arr(<<k \div FLOAT>>, float64s(Take(stream, k))))
                 /\ pc' = "pos_inverse"
                 /\ UNCHANGED <<signal, where>>
            ELSE /\ Raise("ValueError")
                 /\ UNCHANGED cell
    /\ UNCHANGED <<conf, hs, posLog, clients, sock, timeout, flags, inverse, crd, energy, force,
                   extra, nbead, natom, offset, orch, obs>>

\* BaseDriver.posdata: inverse
PosInverse ==
    /\ pc = "pos_inverse"
    /\ \E k \in RecvSizes(FLOAT * 9) :
         /\ Recv(FLOAT * 9, k)
         /\ IF k % FLOAT = 0
            THEN /\ inverse' = Map1(OpDivBohr, Arr(<<k \div FLOAT>>, float64s(Take(stream, k))))
                 /\ pc' = "pos_natom"
                 /\ UNCHANGED <<signal, where>>
            ELSE /\ Raise("ValueError")
                 /\ UNCHANGED inverse
    /\ UNCHANGED <<conf, hs, posLog, clients, sock, timeout, flags, cell, crd, energy, force,
                   extra, nbead, natom, offset, orch, obs>>

\* BaseDriver.posdata: natom
PosNatom ==
    /\ pc = "pos_natom"
    /\ \E k \in RecvSizes(INT) :
         /\ Recv(INT, k)
         /\ IF k = INT
            THEN /\ natom' = int32(Take(stream, INT))
                 /\ pc' = "pos_crd"
                 /\ UNCHANGED <<signal, where>>
            ELSE /\ Raise(IntReadError(k))
                 /\ UNCHANGED natom
    /\ UNCHANGED <<conf, hs, posLog, clients, sock, timeout, flags, cell, inverse, crd, energy,
                   force, extra, nbead, offset, orch, obs>>

\* FLOAT * 3 * self.natom, as a byte count of the stream
CrdWant == IF natom > Len(stream) THEN Len(stream) + 1 ELSE Clamp(FLOAT * 3 * natom)

\* posdata keeping the result that is already pending
storeResult_keepsFirst(r) ==
    IF r.exc # "None"
    THEN /\ Raise(r.exc)
         /\ UNCHANGED <<energy, force, ifForce, lastPG, posLog>>
    ELSE IF IsNone(r.force)
    THEN /\ energy' = r.energy
         /\ Raise("TypeError")
         /\ UNCHANGED <<force, ifForce, lastPG, posLog>>
    ELSE /\ energy' = IF ifForce THEN energy ELSE r.energy
         /\ force' = IF ifForce THEN force ELSE Map1(OpNeg, r.force)
         /\ ifForce' = TRUE
         /\ lastPG' = "POSDATA"
         /\ posLog' = Append(posLog, [client |-> clients, crd |-> crd', over |-> ifForce])
         /\ pc' = "header"
         /\ UNCHANGED <<signal, where>>

\* BaseDriver.posdata from self.grad on: the result is stored, the force
\* negated, and only then is ifForce set
storeResult(r) ==
    IF r.exc # "None"
    THEN /\ Raise(r.exc)
         /\ UNCHANGED <<energy, force, ifForce, lastPG, posLog>>
    ELSE IF IsNone(r.force)
    THEN /\ energy' = r.energy
         /\ Raise("TypeError")
         /\ UNCHANGED <<force, ifForce, lastPG, posLog>>
    ELSE /\ energy' = r.energy
         /\ force' = Map1(OpNeg, r.force)
         /\ ifForce' = TRUE
         /\ lastPG' = "POSDATA"
         /\ posLog' = Append(posLog, [client |-> clients, crd |-> crd', over |-> ifForce])
         /\ pc' = "header"
         /\ UNCHANGED <<signal, where>>

\* BaseDriver.posdata: the coordinates, then the evaluator
PosCrd ==
    /\ pc = "pos_crd"
    /\ IF natom < 0
       THEN /\ Raise("ValueError")
            /\ UNCHANGED <<stream, shortReads, lastRead, crd, energy, force, ifForce, lastPG,
                           posLog>>
       ELSE \E k \in RecvSizes(CrdWant) :
              /\ Recv(CrdWant, k)
              /\ IF k % FLOAT # 0 \/ natom > Len(stream) \/ k # FLOAT * 3 * natom
                 THEN /\ Raise("ValueError")
                      /\ UNCHANGED <<crd, energy, force, ifForce, lastPG, posLog>>
                 ELSE LET c == Map1(OpMulBohr, Arr(<<natom, 3>>, float64s(Take(stream, k))))
                      IN  /\ crd' = c
                          /\ \E r \in grad(c) : storeResult(r)
    /\ UNCHANGED <<conf, hs, clients, sock, timeout, ifInit, cell, inverse, extra, nbead,
                   natom, offset, orch, header, out, replies>>

\* ------------------------------------------------------ the specification
Next ==
    \/ Construct
    \/ ConstructTimeout
    \/ OrchScript
    \/ OrchSend
    \/ OrchAbort
    \/ OrchClose
    \/ ParseStatus
    \/ ParseInit
    \/ ParsePosdata
    \/ ParseGetforce
    \/ ParseExit
    \/ ParseShort
    \/ ParseNone
    \/ ReadTimeout
    \/ InitNbead
    \/ InitOffset
    \/ InitPayload
    \/ PosCell
    \/ PosInverse
    \/ PosNatom
    \/ PosCrd

Spec == Init /\ [][Next]_vars

\* ---------------------------- the client under a handshaking orchestrator
\* python driver.py (HarmonicDriver, whose grad always returns) with an
\* orchestrator that follows the handshake
InitLive ==
    /\ program = "main"
    /\ script = <<>>
    /\ seqTest = FALSE
    /\ clients = 0
    /\ pc = "connect"
    /\ sock = "none"
    /\ timeout = 0
    /\ ifInit = FALSE
    /\ ifForce = FALSE
    /\ cell = None
    /\ inverse = None
    /\ crd = None
    /\ energy = None
    /\ force = None
    /\ extra = <<>>
    /\ nbead = -1
    /\ natom = -1
    /\ offset = 0
    /\ stream = <<>>
    /\ peerClosed = FALSE
    /\ nfree = 0
    /\ shortReads = 0
    /\ header = <<>>
    /\ out = <<>>
    /\ replies = <<>>
    /\ lastPG = "none"
    /\ lastRead = [want |-> 0, got |-> 0]
    /\ signal = "None"
    /\ where = "none"
    /\ posLog = <<>>
    /\ hs = [phase |-> "poll", seen |-> 0, cycles |-> 0]

\* the steps of the client process
ClientStep ==
    \/ Construct
    \/ ParseStatus
    \/ ParseInit
    \/ ParsePosdata
    \/ ParseGetforce
    \/ ParseExit
    \/ ParseShort
    \/ ParseNone
    \/ InitNbead
    \/ InitOffset
    \/ InitPayload
    \/ PosCell
    \/ PosInverse
    \/ PosNatom
    \/ PosCrd

NextLive ==
    \/ ClientStep
    \/ ConstructTimeout
    \/ ReadTimeout
    \/ OrchHandshake

\* the process runs while it can, and the orchestrator goes on with the
\* handshake while the client reads; a timeout may or may not elapse
SpecLive ==
    /\ InitLive
    /\ [][NextLive]_vars
    /\ WF_vars(ClientStep)
    /\ WF_vars(OrchHandshake)

\* ----------------------------------------------------------- the claims
RECURSIVE SumLen(_)
SumLen(sends) == IF sends = <<>> THEN 0 ELSE Head(sends).len + SumLen(Tail(sends))

StatusReply(h) == <<Sent("header", h, HeaderLen)>>

\* C1: a STATUS handled while ifInit is false is answered NEEDINIT, whatever
\* was received before (stated as the claim states it, for runs in which
\* every read returned whole; the code answers HAVEDATA after a POSDATA that
\* preceded every INIT)
C1_NeedInitUntilInit ==
    (header = CmdSTATUS /\ ~ifInit /\ shortReads = 0) => out = StatusReply(NEEDINIT)

\* C2: for an initialized client, a STATUS handled after a completed POSDATA
\* and before the next completed GETFORCE is answered HAVEDATA, and a STATUS
\* handled after a completed GETFORCE and before the next completed POSDATA
\* is answered READY
C2_StatusInCycle ==
    (header = CmdSTATUS /\ ifInit) =>
        /\ (lastPG = "POSDATA" => out = StatusReply(HAVEDATA))
        /\ (lastPG = "GETFORCE" => out = StatusReply(READY))

C2_Witness ==
    /\ header = CmdSTATUS
    /\ ifInit
    /\ lastPG = "GETFORCE"
    /\ replies = <<READY, HAVEDATA, FORCEREADY, READY>>

\* C3: between header dispatches ifForce is true exactly when a POSDATA handler
\* has completed and no GETFORCE handler has completed since; it is false
\* for a fresh client
C3_PendingIffUnsent ==
    (pc = "header") => (ifForce <=> lastPG = "POSDATA")

C3_Witness ==
    /\ pc = "header"
    /\ lastPG = "GETFORCE"
    /\ ~ifForce
    /\ ~IsNone(energy)

\* C4: a FORCEREADY reply starts only while a result is pending (stated as
\* the claim states it, for runs in which every read returned whole; getforce
\* has no such guard)
C4_ForceOnlyWhenPending ==
    [][(/\ Len(replies') = Len(replies) + 1
        /\ replies'[Len(replies')] = FORCEREADY
        /\ shortReads' = 0) => ifForce]_vars

\* C5: in every session state, handling EXIT closes the socket, leaves parse()
\* with ExitSignal and sends nothing
C5_ExitClosesAndSignals ==
    (header = CmdEXIT) =>
        /\ sock = "closed"
        /\ signal = "ExitSignal"
        /\ pc # "header"
        /\ out = <<>>

C5_Witness ==
    /\ header = CmdEXIT
    /\ ifInit
    /\ ifForce
    /\ signal = "ExitSignal"

\* C6: a completed GETFORCE for N >= 1 atoms writes
\* 12 + 8 + 4 + 3N*8 + 9*8 + 4 + len(extra) bytes (stated as the claim
\* states it, for runs in which every read returned whole; the code writes
\* 3N virial values, not 9)
C6_ForceReplyLength ==
    (/\ header = CmdGETFORCE
     /\ pc = "header"
     /\ lastPG = "GETFORCE"
     /\ natom >= 1
     /\ shortReads = 0) =>
        SumLen(out) = 12 + 8 + 4 + 3 * natom * 8 + 9 * 8 + 4
                        + (IF Len(extra) > 0 THEN Len(extra) ELSE 1)

\* C7: bytes are sent only while a STATUS header (exactly one 12-byte reply)
\* or a GETFORCE header (one force reply, begun by its only FORCEREADY header)
\* is handled; INIT, POSDATA, EXIT, an unmatched header and the time before
\* the first header send nothing
C7_OnlySolicitedReplies ==
    /\ (header = CmdSTATUS) =>
          /\ Len(out) = 1
          /\ out[1].len = HeaderLen
          /\ out[1].data \in {NEEDINIT, READY, HAVEDATA}
    /\ (header = CmdGETFORCE) =>
          /\ Len(out) >= 1
          /\ out[1].data = FORCEREADY
          /\ \A i \in 2..Len(out) : out[i].fld # "header"
    /\ (header \notin {CmdSTATUS, CmdGETFORCE}) => out = <<>>
    /\ Len(replies) = 0 => out = <<>>

C7_Witness ==
    /\ header = CmdINIT
    /\ pc = "header"
    /\ ifInit
    /\ replies # <<>>
    /\ out = <<>>

\* C8: after the sequence test the replies are READY, HAVEDATA, FORCEREADY,
\* READY and the stream is empty at a header boundary (stated as the claim
\* states it, for the evaluator that returns; a short read breaks it)
C8_SequenceTest ==
    (seqTest /\ program = "main" /\ script = <<>>) =>
        /\ (Len(replies) >= 4 \/ (stream = <<>> /\ pc \in {"header", "halted"})) =>
              /\ replies = <<READY, HAVEDATA, FORCEREADY, READY>>
              /\ stream = <<>>
              /\ (pc = "header" \/ (signal = "TimeOutSignal" /\ where = "header"))

\* C9: a read that returns fewer bytes than requested fails (stated as the
\* claim states it; the code decodes and dispatches on what a single recv
\* returned)
C9_ExactReads ==
    (lastRead.got < lastRead.want) => signal # "None"

\* C10 as stated: once connected, the socket timeout never ends the client
C10_TimeoutOnlyAtConnect ==
    (signal = "TimeOutSignal" /\ timeout # 0) => where = "connect"

\* C10 amended: the socket timeout elapses only at connect or while parse()
\* waits for a header; the payload reads of a handler have no timeout
C10_TimeoutOnlyAtConnectOrHeader ==
    /\ signal # "socket.timeout"
    /\ (signal = "TimeOutSignal" => where \in {"connect", "header"})
    /\ (pc \in PayloadPcs => timeout = 0)

C10_Witness ==
    /\ signal = "TimeOutSignal"
    /\ where = "header"
    /\ timeout = HeaderTimeout
    /\ header = CmdSTATUS
    /\ stream = <<>>

\* a step of parse() in which recv returned a whole 12-byte header
WholeHeaderStep ==
    /\ pc = "header"
    /\ Len(stream) >= HeaderLen
    /\ stream' = Drop(stream, HeaderLen)

\* what a step leaves alone when it ignores a header
Ignored ==
    /\ out' = <<>>
    /\ replies' = replies
    /\ UNCHANGED <<flags, data, sock>>

\* C11 as stated: a whole header that strips to none of the five commands,
\* headers that strip to zero or one character included, is ignored: nothing
\* is sent, nothing is raised, the state is kept and the loop goes on
C11_UnknownIgnored ==
    [][(WholeHeaderStep /\ Branch(header') \in {"none", "short"})
         => (Ignored /\ signal' = "None" /\ pc' = "header")]_vars

\* C11 amended: a whole header that strips to two or more characters and to
\* none of the five commands is ignored as above; one that strips to fewer than
\* two characters sends nothing and keeps the state but raises TimeOutSignal
C11_UnknownIgnoredShortRaises ==
    [][/\ (WholeHeaderStep /\ Branch(header') = "none")
            => (Ignored /\ signal' = "None" /\ pc' = "header")
       /\ (WholeHeaderStep /\ Branch(header') = "short")
            => (Ignored /\ signal' = "TimeOutSignal" /\ pc' = "halted")]_vars

C11_Witness ==
    /\ Branch(header) = "none"
    /\ lastRead = [want |-> HeaderLen, got |-> HeaderLen]
    /\ pc = "header"
    /\ signal = "None"
    /\ ifForce
    /\ lastPG = "POSDATA"

\* C12 as stated: when the loop has been left from parse() by ExitSignal or
\* TimeOutSignal, the socket has been closed (the code closes it in exit()
\* only)
C12_ClosedWhenStopped ==
    (where = "header" /\ signal \in {"ExitSignal", "TimeOutSignal"} /\ shortReads = 0)
        => sock = "closed"

\* the latest recv found the stream ended by the peer
ReadEnd == lastRead.want > 0 /\ lastRead.got = 0

\* C13: ExitSignal is raised only by parse() on a header that strips to EXIT,
\* after exit() closed the socket; a read that found the peer gone and a read
\* that timed out, at a header or inside a payload, end in another exception
C13_DisconnectIsNotExit ==
    /\ signal = "ExitSignal" =>
          /\ header = CmdEXIT
          /\ where = "header"
          /\ lastRead.got >= Len(CmdEXIT)
          /\ timeout = 0
    /\ ReadEnd => signal # "ExitSignal"
    /\ (pc = "halted" /\ ReadEnd) => signal \in {"TimeOutSignal", "IndexError", "ValueError"}
    /\ timeout # 0 => signal \in {"TimeOutSignal", "socket.timeout"}

C13_Witness ==
    /\ peerClosed
    /\ ReadEnd
    /\ where \in PayloadPcs
    /\ signal \in {"IndexError", "ValueError"}
    /\ shortReads = 0

\* C14 as stated: when the evaluator raised, returned None or returned no
\* forces during a POSDATA, the process ends there, ifForce is not set by that
\* POSDATA and nothing of a force reply is sent for it (GaussDriver.readlog
\* returns an empty force array for a log without a "Forces" section;
\* posdata() stores it and sets ifForce, and getforce() sends the header, the
\* energy and the atom count before numpy raises)
C14_FailedStepSendsNothing ==
    /\ (where = "pos_crd" /\ signal \in {"TypeError", "IndexError"}) =>
          /\ pc = "halted"
          /\ out = <<>>
          /\ (ifForce => lastPG = "POSDATA")
    /\ (force.shape = <<0>> /\ shortReads = 0) =>
          /\ ~ifForce
          /\ ~(header = CmdGETFORCE /\ out # <<>>)

\* a step of parse() in which recv returned bytes of a header
HeaderStep == pc = "header" /\ Len(stream') < Len(stream)

\* what C15 says of one step
FlagStep ==
    /\ (pc = "connect" /\ pc' = "header") => (~ifInit' /\ ~ifForce')
    /\ (pc # "connect" /\ ifInit' # ifInit) =>
          (pc = "init_payload" /\ ifInit' /\ ifForce' = ifForce)
    /\ (pc # "connect" /\ ifForce' # ifForce) =>
          /\ ifInit' = ifInit
          /\ \/ pc = "pos_crd" /\ ifForce'
             \/ HeaderStep /\ header' = CmdGETFORCE /\ ~ifForce'
    /\ (pc = "init_payload" /\ pc' = "header") => (ifInit' /\ ifForce' = ifForce)
    /\ (pc = "pos_crd" /\ pc' = "header") => (ifForce' /\ ifInit' = ifInit)
    /\ (HeaderStep /\ header' = CmdGETFORCE /\ pc' = "header") =>
          (~ifForce' /\ ifInit' = ifInit)
    /\ (HeaderStep /\ header' = CmdSTATUS) => UNCHANGED flags

\* C15: a client starts with ifInit and ifForce false; ifInit changes only
\* when init() returns, to true; ifForce changes only when posdata() returns,
\* to true, or when getforce() returns, to false; each of the three leaves the
\* other flag alone and STATUS changes neither
C15_FlagFrame == (~ifInit /\ ~ifForce) /\ [][FlagStep]_vars

C15_Witness ==
    /\ header = CmdGETFORCE
    /\ lastPG = "GETFORCE"
    /\ pc = "header"
    /\ ifInit
    /\ ~ifForce
    /\ posLog # <<>>

\* the latest posdata() that returned
LastPos == posLog[Len(posLog)]

\* the latest parse() ran getforce() to its end
ForceSent == header = CmdGETFORCE /\ lastPG = "GETFORCE" /\ pc = "header"

\* the energy, atom count and force fields of a reply for result r of
\* coordinates c
ReplyOf(r, c) ==
    <<Sent("energy", Term1(OpDivEh, r.energy.data[1]), FLOAT),
      Sent("natom", pack_i(c.shape[1]), INT)>>
      \o [i \in 1..Len(r.force.data) |->
            Sent("force", Term1(OpDivEhBohr, Term1(OpNeg, r.force.data[i])), FLOAT)]

\* the sends of the latest parse() with the given field names
Fields(names) == SelectSeq(out, LAMBDA f : f.fld \in names)

\* C16: a POSDATA handled while a result is pending returns without error and
\* leaves one pending result, the one of its own coordinates; the GETFORCE
\* that follows sends the energy, atom count and forces of those coordinates
\* and clears ifForce
C16_SecondPosdataOverwrites ==
    (posLog # <<>> /\ LastPos.over /\ LastPos.client = clients) =>
        /\ (lastPG = "POSDATA" /\ pc = "header") =>
              /\ ifForce
              /\ signal = "None"
              /\ crd = LastPos.crd
              /\ \E r \in grad(LastPos.crd) :
                    r.exc = "None" /\ energy = r.energy /\ force = Map1(OpNeg, r.force)
        /\ ForceSent =>
              /\ ~ifForce
              /\ \E r \in grad(LastPos.crd) :
                    /\ r.exc = "None"
                    /\ Fields({"energy", "natom", "force"}) = ReplyOf(r, LastPos.crd)

C16_Witness ==
    /\ Len(posLog) = 2
    /\ posLog[2].over
    /\ posLog[1].crd # posLog[2].crd
    /\ posLog[1].client = posLog[2].client
    /\ ForceSent
    /\ ~ifForce
    /\ shortReads = 0

\* the field names of a force reply for n atoms as the protocol lays it out
Layout(n) ==
    <<"header", "energy", "natom">> \o [i \in 1..(3 * n) |-> "force"]
      \o [i \in 1..9 |-> "virial"] \o <<"lextra", "extra">>

\* C17 as stated: a force reply is the FORCEREADY header, the energy, the atom
\* count N, 3N force values, 9 virial values, the length of the extra data and
\* the extra data, whose length is never 0 and which is one space when the
\* client has none (stated for HarmonicDriver; the code sends one virial value
\* per coordinate, 3N)
C17_ForceReplyLayout ==
    (ForceSent /\ program = "main" /\ shortReads = 0) =>
        /\ [i \in 1..Len(out) |-> out[i].fld] = Layout(natom)
        /\ out[1].data = FORCEREADY
        /\ out[Len(out) - 1].data # pack_i(0)
        /\ out[Len(out)].len = int32(out[Len(out) - 1].data)
        /\ extra = <<>> => (out[Len(out) - 1].data = pack_i(1) /\ out[Len(out)].data = <<SP>>)

\* C18 as stated: the atom count a force reply declares is the one of the
\* latest POSDATA that was handled to its end, and the reply carries three
\* force values per declared atom (getforce() sends self.force.ravel() as the
\* evaluator shaped it; GaussDriver.readlog returns the rows its log holds)
C18_ForcesMatchAtomCount ==
    (ForceSent /\ posLog # <<>> /\ shortReads = 0) =>
        /\ out[3] = Sent("natom", pack_i(LastPos.crd.shape[1]), INT)
        /\ Len(Fields({"force"})) = 3 * LastPos.crd.shape[1]

\* the posdata() calls of the current client that returned
OwnPos == SelectSeq(posLog, LAMBDA e : e.client = clients)

\* C19: a client constructed after another one ended starts with both flags
\* false and nothing stored; a STATUS it handles before any INIT or POSDATA
\* of its own is answered NEEDINIT, and what it sends in a force reply is the
\* result of a POSDATA of its own
C19_FreshAfterReconnect ==
    clients >= 2 =>
        /\ (pc = "header" /\ header = <<>>) =>
              /\ ~ifInit /\ ~ifForce
              /\ IsNone(crd) /\ IsNone(energy) /\ IsNone(force)
              /\ natom = -1
              /\ replies = <<>> /\ out = <<>>
        /\ (header = CmdSTATUS /\ Len(replies) = 1 /\ ~ifInit /\ OwnPos = <<>>) =>
              out = StatusReply(NEEDINIT)
        /\ (header = CmdGETFORCE /\ OwnPos = <<>>) => out = ForceHead
        /\ (ForceSent /\ OwnPos # <<>>) =>
              \E r \in grad(OwnPos[Len(OwnPos)].crd) :
                  /\ r.exc = "None"
                  /\ Fields({"energy", "natom", "force"}) = ReplyOf(r, OwnPos[Len(OwnPos)].crd)

C19_Witness ==
    /\ clients = 2
    /\ posLog # <<>>
    /\ OwnPos = <<>>
    /\ header = CmdSTATUS
    /\ out = StatusReply(NEEDINIT)
    /\ pc = "header"

\* the FORCEREADY headers the client has sent
ForceReplies == SelectSeq(replies, LAMBDA r : r = FORCEREADY)

\* C20 as stated, for runs in which no timeout elapsed: under the handshaking
\* orchestrator the loop is left only by the ExitSignal of an EXIT header, with
\* ifInit still true and one force reply sent per POSDATA handled (a header
\* that recv returns in two parts is dispatched as two headers, and the second
\* part ends the loop)
C20_RunsUntilExit ==
    (pc = "halted" /\ where # "connect" /\ timeout = 0) =>
        /\ signal = "ExitSignal"
        /\ header = CmdEXIT
        /\ ifInit
        /\ Len(ForceReplies) = Len(posLog)

\* no read has returned short and no header wait has timed out
CleanRun == shortReads = 0 /\ signal # "TimeOutSignal"

\* what holds of C20 in the runs of SpecLive that stay clean: every POSDATA
\* handled is followed by a force reply, ifInit stays true, the loop is left
\* by the ExitSignal of the EXIT header only, and it is left
C20_CleanRunsReachExit ==
    /\ (lastPG = "POSDATA" /\ ifForce) ~> ((lastPG = "GETFORCE" /\ ~ifForce) \/ ~CleanRun)
    /\ <>(~CleanRun \/ (pc = "halted" /\ signal = "ExitSignal" /\ header = CmdEXIT))
    /\ [][ifInit => ifInit']_vars
    /\ []((CleanRun /\ pc = "halted") =>
            (signal = "ExitSignal" /\ Len(ForceReplies) = Len(posLog)))
=============================================================================
